---------------------------- MODULE Spec2Model ----------------------------
(***************************************************************************)
(* Read-through cache in front of the trading store, with the daily 14:11  *)
(* cache flush (app/cache.py, app/utils.py, app/main.py,                   *)
(* app/repositories/trading_repository.py).                                *)
(*                                                                         *)
(* Time is counted in ticks of 1/TicksPerSec second since midnight of day  *)
(* 0, so that the sub-second part that int() drops in                      *)
(* get_seconds_until_flush is visible.  Text (cache keys, ISO dates) is   *)
(* built as strings, character for character as the code formats it.      *)
(***************************************************************************)
EXTENDS Integers, Sequences, FiniteSets, TLC

VARIABLES
    now,          \* wall clock, in ticks
    redisUp,      \* whether the redis server can be reached
    redis_client, \* cache.redis_client: TRUE once a client has been created
    cache,        \* the keys redis holds: key -> [stored, exp, due, by]
    db,           \* the rows of the trading store
    sched,        \* the schedule_cache_flush task: [variant, pc, wakeAt, since]
    tasks,        \* the request tasks, each running one repository call at a time
    prior,        \* calls that returned with the cache available, no flush since
    used,         \* how many calls and outages have happened
    lim,          \* what a run is bounded by: [calls, outages, horizon]
    hist,         \* what the scheduler has done: [flushDays, failed]
    fpc,          \* pure specifications: "idle" before the function is applied, "done" after
    fin,          \* input of the pure function under check
    fout          \* its output

sysvars == <<redisUp, redis_client, cache, db, sched, tasks, prior, used, lim, hist>>
purevars == <<fpc, fin, fout>>
vars == <<now, redisUp, redis_client, cache, db, sched, tasks, prior, used, lim, hist,
          fpc, fin, fout>>

-----------------------------------------------------------------------------
(* Bounds of the model *)

\* clock resolution: ticks per second
TicksPerSec == 2
\* the pure wait-time check covers every tick within this many seconds of a cutover
WaitWindow == 5
\* last day (0-based) whose cutover the clock may reach
MaxDay == 1
\* request tasks in flight at once
NumTasks == 1
\* repository calls started in one run
MaxCalls == 2
\* redis outages in one run
MaxOutages == 1
\* the process starts up to this many ticks before the first cutover
StartSpread == 4
\* ticks that may pass between a scheduled flush_cache call and the next
\* reading of the clock by the scheduler loop (the flush round trip)
MaxLag == 3
\* while the scheduler sleeps the clock may jump to this many ticks before
\* its wake-up
JumpMargin == 3

(* Program constants *)

\* time(14, 11)
FlushHour == 14
FlushMinute == 11
\* timedelta(days=1), in seconds
SecondsPerDay == 86400

DayTicks == SecondsPerDay * TicksPerSec
FlushTod == (FlushHour * 3600 + FlushMinute * 60) * TicksPerSec

\* datetime.combine(day, time(14, 11)), as ticks
Cutover(day) == day * DayTicks + FlushTod

\* int(x / d) of Python: truncation toward zero
IntTrunc(x, d) == IF x >= 0 THEN x \div d ELSE -((-x) \div d)

-----------------------------------------------------------------------------
(* Python values.  Every value is a record tagged by its type in t; a field *)
(* name always holds the same kind of value.                                *)

PyNone == [t |-> "none"]
PyStr(s) == [t |-> "str", s |-> s]
PyInt(n) == [t |-> "int", n |-> n]
PyBool(b) == [t |-> "bool", b |-> b]
\* a datetime of May 2024: day of the month and hour
PyDatetime(day, hour) == [t |-> "datetime", day |-> day, hour |-> hour]
PyDate(day) == [t |-> "date", day |-> day]
PyList(items) == [t |-> "list", items |-> items]
PyDict(d) == [t |-> "dict", d |-> d]

TwoDigits(n) == IF n < 10 THEN "0" \o ToString(n) ELSE ToString(n)

\* date.isoformat()
isoformat(d) == "2024-05-" \o TwoDigits(d.day)

\* str(v), as an f-string renders {v}
str(v) ==
    CASE v.t = "none" -> "None"
      [] v.t = "str" -> v.s
      [] v.t = "int" -> ToString(v.n)
      [] v.t = "datetime" ->
            "2024-05-" \o TwoDigits(v.day) \o " " \o TwoDigits(v.hour) \o ":00:00"
      [] v.t = "date" -> isoformat(v)

-----------------------------------------------------------------------------
(* app/repositories/trading_repository.py: the calls and their cache keys *)

\* one call of a repository operation with its arguments (an argument the
\* operation does not take is PyNone)
Call(op, oil_id, delivery_type_id, delivery_basis_id, start_date, end_date, limit) ==
    [op |-> op, oil_id |-> oil_id, delivery_type_id |-> delivery_type_id,
     delivery_basis_id |-> delivery_basis_id, start_date |-> start_date,
     end_date |-> end_date, limit |-> limit]

LastTradingDates(limit) ==
    Call("last_trading_dates", PyNone, PyNone, PyNone, PyNone, PyNone, PyInt(limit))
Dynamics(oil_id, delivery_type_id, delivery_basis_id, start_date, end_date) ==
    Call("dynamics", oil_id, delivery_type_id, delivery_basis_id, start_date, end_date, PyNone)
TradingResults(oil_id, delivery_type_id, delivery_basis_id, limit) ==
    Call("trading_results", oil_id, delivery_type_id, delivery_basis_id, PyNone, PyNone,
         PyInt(limit))

\* cache_key of the three operations
cache_key(c) ==
    CASE c.op = "last_trading_dates" ->
            "last_trading_dates:" \o str(c.limit)
      [] c.op = "dynamics" ->
            "dynamics:" \o str(c.oil_id) \o ":" \o str(c.delivery_type_id) \o ":"
                \o str(c.delivery_basis_id) \o ":" \o str(c.start_date) \o ":"
                \o str(c.end_date)
      [] c.op = "trading_results" ->
            "trading_results:" \o str(c.oil_id) \o ":" \o str(c.delivery_type_id) \o ":"
                \o str(c.delivery_basis_id) \o ":" \o str(c.limit)

-----------------------------------------------------------------------------
(* The trading store (SpimexTradingResultAsync) and the three queries of   *)
(* app/repositories/trading_repository.py                                  *)

\* one row of the table; its date column is a datetime
Row(id, oil_id, delivery_type_id, delivery_basis_id, day, hour) ==
    [id |-> PyInt(id), oil_id |-> PyStr(oil_id),
     delivery_type_id |-> PyStr(delivery_type_id),
     delivery_basis_id |-> PyStr(delivery_basis_id), date |-> PyDatetime(day, hour)]

\* the rows the table can hold, in the order they are appended
TableRows ==
    << Row(1, "B200", "T1", "B1", 1, 0),
       Row(2, "A100", "T1", "B1", 2, 0),
       Row(3, "A100", "T1", "B1", 3, 0),
       Row(4, "A100", "T1", "B1", 3, 12) >>

\* the days of May 2024 and the hours a datetime of the model can have
MonthDays == 1 .. 4
DayHours == {0, 12}
AllDatetimes == { PyDatetime(d, h) : d \in MonthDays, h \in DayHours }

\* position of a datetime in time
DtOrd(dt) == dt.day * 24 + dt.hour

\* bool(v) of Python
Truthy(v) ==
    CASE v.t = "none" -> FALSE
      [] v.t = "str" -> v.s # ""
      [] v.t = "int" -> v.n # 0
      [] v.t = "bool" -> v.b
      [] v.t = "list" -> v.items # <<>>
      [] v.t = "dict" -> DOMAIN v.d # {}
      [] OTHER -> TRUE

RECURSIVE OrderRowsByDateDesc(_)
\* ORDER BY date DESC over a set of rows
OrderRowsByDateDesc(S) ==
    IF S = {} THEN <<>>
    ELSE LET first == CHOOSE r \in S : \A q \in S : DtOrd(q.date) <= DtOrd(r.date)
         IN  <<first>> \o OrderRowsByDateDesc(S \ {first})

RECURSIVE OrderDatetimesDesc(_)
\* ORDER BY date DESC over a set of datetimes
OrderDatetimesDesc(S) ==
    IF S = {} THEN <<>>
    ELSE LET first == CHOOSE r \in S : \A q \in S : DtOrd(q) <= DtOrd(r)
         IN  <<first>> \o OrderDatetimesDesc(S \ {first})

\* LIMIT n
Limit(seq, n) == SubSeq(seq, 1, IF n < Len(seq) THEN n ELSE Len(seq))

\* TradingResult.from_orm(row) and result.dict()
from_orm(row) == [t |-> "TradingResult", f |-> row]
dict(tr) == PyDict(tr.f)

\* select(date).distinct().order_by(date.desc()).limit(limit), then
\* row[0].date() of every row
query_last_trading_dates(c, rows) ==
    LET dts == Limit(OrderDatetimesDesc({ r.date : r \in rows }), c.limit.n)
    IN  [ i \in 1 .. Len(dts) |-> PyDate(dts[i].day) ]

\* the filters of get_dynamics: each one is applied only if its argument is truthy
dynamics_filters(c, r) ==
    /\ Truthy(c.oil_id) => r.oil_id = c.oil_id
    /\ Truthy(c.delivery_type_id) => r.delivery_type_id = c.delivery_type_id
    /\ Truthy(c.delivery_basis_id) => r.delivery_basis_id = c.delivery_basis_id
    /\ Truthy(c.start_date) => DtOrd(r.date) >= DtOrd(c.start_date)
    /\ Truthy(c.end_date) => DtOrd(r.date) <= DtOrd(c.end_date)

query_dynamics(c, rows) ==
    LET got == OrderRowsByDateDesc({ r \in rows : dynamics_filters(c, r) })
    IN  [ i \in 1 .. Len(got) |-> from_orm(got[i]) ]

\* the filters of get_trading_results
trading_results_filters(c, r) ==
    /\ Truthy(c.oil_id) => r.oil_id = c.oil_id
    /\ Truthy(c.delivery_type_id) => r.delivery_type_id = c.delivery_type_id
    /\ Truthy(c.delivery_basis_id) => r.delivery_basis_id = c.delivery_basis_id

query_trading_results(c, rows) ==
    LET got == Limit(OrderRowsByDateDesc({ r \in rows : trading_results_filters(c, r) }),
                     c.limit.n)
    IN  [ i \in 1 .. Len(got) |-> from_orm(got[i]) ]

\* the store query of the operation of call c
db_execute(c, rows) ==
    CASE c.op = "last_trading_dates" -> query_last_trading_dates(c, rows)
      [] c.op = "dynamics" -> query_dynamics(c, rows)
      [] c.op = "trading_results" -> query_trading_results(c, rows)

\* what the operation hands to set_cache: dates_str, results_dict
cache_payload(c, result) ==
    IF c.op = "last_trading_dates"
    THEN PyList([ i \in 1 .. Len(result) |-> PyStr(isoformat(result[i])) ])
    ELSE PyList([ i \in 1 .. Len(result) |-> dict(result[i]) ])

-----------------------------------------------------------------------------
(* Encoding and decoding of cached values (app/cache.py)                   *)

\* a rendering of a datetime that keeps the date only
isoformat_dateonly(dt) ==
    "2024-05-" \o TwoDigits(dt.day)

\* the outcome of an expression: its value, or the exception it raises
Ok(val) == [exc |-> "none", val |-> val]
Raise(exc) == [exc |-> exc, val |-> <<>>]

\* datetime.isoformat()
isoformat_datetime(dt) ==
    "2024-05-" \o TwoDigits(dt.day) \o "T" \o TwoDigits(dt.hour) \o ":00:00"

RECURSIVE json_value(_)
\* what json.dumps(value, cls=CustomJSONEncoder) writes for value: dates and
\* datetimes become ISO-8601 strings, containers are encoded element by element
json_value(v) ==
    CASE v.t = "date" -> PyStr(isoformat(v))
      [] v.t = "datetime" -> PyStr(isoformat_datetime(v))
      [] v.t = "list" -> PyList([ i \in 1 .. Len(v.items) |-> json_value(v.items[i]) ])
      [] v.t = "dict" -> PyDict([ k \in DOMAIN v.d |-> json_value(v.d[k]) ])
      [] OTHER -> v

\* the string redis holds: a JSON document, or text that is no JSON
JsonText(doc) == [enc |-> "json", doc |-> doc]
RawText(text) == [enc |-> "raw", text |-> text]

\* the JSON scalars a text of the model can denote, and their JSON text
JsonInts == 0 .. 20
JsonStrings == {"", "A100", "garbage"}
JsonScalars ==
    {PyNone, PyBool(TRUE), PyBool(FALSE)} \cup { PyInt(n) : n \in JsonInts }
    \cup { PyStr(x) : x \in JsonStrings }

json_dumps_scalar(doc) ==
    CASE doc.t = "none" -> "null"
      [] doc.t = "bool" -> IF doc.b THEN "true" ELSE "false"
      [] doc.t = "int" -> ToString(doc.n)
      [] doc.t = "str" -> "\"" \o doc.s \o "\""

\* json.loads(text) of a text that holds no list and no object: the scalar
\* it denotes, or JSONDecodeError
json_loads(text) ==
    IF \E doc \in JsonScalars : json_dumps_scalar(doc) = text
    THEN Ok(CHOOSE doc \in JsonScalars : json_dumps_scalar(doc) = text)
    ELSE Raise("JSONDecodeError")

\* value as set_cache hands it to redis.set: structured values and dates as
\* their JSON text, a str as it is (a text that may itself be JSON), an int
\* as its decimal text
set_cache_encode(value) ==
    IF value.t \in {"dict", "list", "date", "datetime"}
    THEN JsonText(json_value(value))
    ELSE IF value.t = "str"
         THEN IF json_loads(value.s).exc = "none" THEN JsonText(json_loads(value.s).val)
              ELSE RawText(value.s)
    ELSE JsonText(value)

\* get_cache on a stored string: json.loads, and on JSONDecodeError the
\* string itself; an empty string counts as absent
get_cache_decode(stored) ==
    IF stored.enc = "json" THEN stored.doc
    ELSE IF stored.text = "" THEN PyNone ELSE PyStr(stored.text)

-----------------------------------------------------------------------------
(* Reconstruction of the typed result from a cached value                  *)
(* (app/repositories/trading_repository.py)                                *)

\* datetime.fromisoformat(x): TypeError unless x is a str, ValueError unless
\* the str is an ISO-8601 date or datetime
fromisoformat(x) ==
    IF x.t # "str" THEN Raise("TypeError")
    ELSE IF \E dt \in AllDatetimes : isoformat_datetime(dt) = x.s
         THEN Ok(CHOOSE dt \in AllDatetimes : isoformat_datetime(dt) = x.s)
    ELSE IF \E d \in MonthDays : isoformat(PyDate(d)) = x.s
         THEN Ok(PyDatetime(CHOOSE d \in MonthDays : isoformat(PyDate(d)) = x.s, 0))
    ELSE Raise("ValueError")

\* the elements a for loop over v visits, or TypeError when v is not iterable
\* (a str yields its characters and a dict its keys, none of them an ISO date)
iterate(v) ==
    CASE v.t = "list" -> Ok(v.items)
      [] v.t = "str" -> Ok([ i \in 1 .. 1 |-> PyStr("?") ])
      [] v.t = "dict" -> Ok([ i \in 1 .. Cardinality(DOMAIN v.d) |-> PyStr("key") ])
      [] OTHER -> Raise("TypeError")

\* [datetime.fromisoformat(date_str).date() for date_str in cached]
dates_from_cache(cached) ==
    LET it == iterate(cached)
    IN  IF it.exc # "none" THEN it
        ELSE LET parsed == [ i \in 1 .. Len(it.val) |-> fromisoformat(it.val[i]) ]
                 bad == { i \in 1 .. Len(parsed) : parsed[i].exc # "none" }
             IN  IF bad # {}
                 THEN Raise(parsed[CHOOSE i \in bad : \A j \in bad : i <= j].exc)
                 ELSE Ok([ i \in 1 .. Len(parsed) |-> PyDate(parsed[i].val.day) ])

\* the fields of TradingResult
ResultFields == {"id", "oil_id", "delivery_type_id", "delivery_basis_id", "date"}

\* TradingResult(**item): the item must be a mapping holding every field, the
\* date an ISO-8601 string (or a datetime)
TradingResult(item) ==
    IF item.t # "dict" THEN Raise("TypeError")
    ELSE IF DOMAIN item.d # ResultFields THEN Raise("ValidationError")
    ELSE IF item.d.id.t # "int" \/ item.d.oil_id.t # "str"
            \/ item.d.delivery_type_id.t # "str" \/ item.d.delivery_basis_id.t # "str"
         THEN Raise("ValidationError")
    ELSE IF item.d.date.t = "datetime" THEN Ok([t |-> "TradingResult", f |-> item.d])
    ELSE IF fromisoformat(item.d.date).exc # "none" THEN Raise("ValidationError")
    ELSE Ok([t |-> "TradingResult",
             f |-> [item.d EXCEPT !.date = fromisoformat(item.d.date).val]])

\* [TradingResult(**item) for item in cached]
results_from_cache(cached) ==
    LET it == iterate(cached)
    IN  IF it.exc # "none" THEN it
        ELSE LET parsed == [ i \in 1 .. Len(it.val) |-> TradingResult(it.val[i]) ]
                 bad == { i \in 1 .. Len(parsed) : parsed[i].exc # "none" }
             IN  IF bad # {}
                 THEN Raise(parsed[CHOOSE i \in bad : \A j \in bad : i <= j].exc)
                 ELSE Ok([ i \in 1 .. Len(parsed) |-> parsed[i].val ])

\* the comprehension of the operation of call c
from_cache(c, cached) ==
    IF c.op = "last_trading_dates" THEN dates_from_cache(cached)
    ELSE results_from_cache(cached)

\* whether the except clause around the comprehension catches exc:
\* get_last_trading_dates has "except ValueError", the other two "except Exception"
except_catches(c, exc) ==
    IF c.op = "last_trading_dates" THEN exc = "ValueError" ELSE TRUE

-----------------------------------------------------------------------------
(* app/utils.py *)

\* flush_time of get_seconds_until_flush: today's 14:11, moved one day on
\* only when now is strictly after it
flush_time_of(t) ==
    LET today == Cutover(t \div DayTicks)
    IN  IF t > today THEN today + DayTicks ELSE today

\* the computation with flush_time always moved to the next day
get_seconds_until_flush_late(t) ==
    IntTrunc(Cutover(t \div DayTicks) + DayTicks - t, TicksPerSec)

\* get_seconds_until_flush(): whole seconds until flush_time
get_seconds_until_flush(t) ==
    IntTrunc(flush_time_of(t) - t, TicksPerSec)

(* app/main.py *)

\* wait_seconds of main.schedule_cache_flush: the same difference, passed to
\* asyncio.sleep as a float (here: in ticks, nothing dropped)
main_wait_ticks(t) ==
    flush_time_of(t) - t

-----------------------------------------------------------------------------
(* app/cache.py: the cache store.  Each operation is one atomic step; a    *)
(* backend call raises ConnectionError while the server cannot be reached. *)

\* ex=None of redis.set: the key never expires
NoExpiry == -1

EmptyCache == [k \in {} |-> <<>>]

Put(f, k, v) == [x \in DOMAIN f \cup {k} |-> IF x = k THEN v ELSE f[x]]

\* the keys of c that have not expired at time t (redis drops a key ttl
\* seconds after it was set)
Unexpired(c, t) ==
    [k \in { x \in DOMAIN c : c[x].exp = NoExpiry \/ c[x].exp > t } |-> c[k]]

\* the first 14:11 strictly after t
NextCutAfter(t) ==
    LET today == Cutover(t \div DayTicks)
    IN  IF t < today THEN today ELSE today + DayTicks

\* get_redis_pool(): the client after the call (FALSE: None).  A client is
\* created when there is none and from_url/ping succeed; a failure is caught
get_redis_pool == redis_client \/ redisUp

\* the exception a call on the client raises
redis_call == IF redisUp THEN "none" ELSE "ConnectionError"

\* get_cache without its except clause: the backend error leaves the call
get_cache_uncaught(key) ==
    IF ~get_redis_pool \/ redis_call # "none"
    THEN [ret |-> PyNone, exc |-> redis_call, cache |-> cache]
    ELSE IF key \in DOMAIN cache
         THEN [ret |-> get_cache_decode(cache[key].stored), exc |-> "none", cache |-> cache]
         ELSE [ret |-> PyNone, exc |-> "none", cache |-> cache]

\* a read that renews the entry it returns: the key lives a day from the read
get_cache_renewing(key) ==
    IF ~get_redis_pool \/ redis_call # "none"
    THEN [ret |-> PyNone, exc |-> "none", cache |-> cache]
    ELSE IF key \in DOMAIN cache
         THEN [ret |-> get_cache_decode(cache[key].stored), exc |-> "none",
               cache |-> [cache EXCEPT ![key].exp = now + DayTicks]]
         ELSE [ret |-> PyNone, exc |-> "none", cache |-> cache]

\* get_cache(key): the value returned, the exception that leaves the call and
\* the cache after it (redis.get only reads)
get_cache(key) ==
    IF ~get_redis_pool THEN [ret |-> PyNone, exc |-> "none", cache |-> cache]
    ELSE IF redis_call # "none" THEN [ret |-> PyNone, exc |-> "none", cache |-> cache]
    ELSE IF key \in DOMAIN cache
         THEN [ret |-> get_cache_decode(cache[key].stored), exc |-> "none", cache |-> cache]
         ELSE [ret |-> PyNone, exc |-> "none", cache |-> cache]

\* a set that leaves the expiry of an existing entry in place when expire <= 0
set_cache_keepttl(key, value, expire) ==
    IF ~get_redis_pool \/ redis_call # "none" THEN [cache |-> cache, exc |-> "none"]
    ELSE [cache |->
            Put(cache, key,
                [stored |-> set_cache_encode(value),
                 exp |-> IF expire > 0 THEN now + expire * TicksPerSec
                         ELSE IF key \in DOMAIN cache THEN cache[key].exp ELSE NoExpiry,
                 due |-> NextCutAfter(now),
                 by |-> "repo"]),
          exc |-> "none"]

\* set_cache(key, value, expire): the cache after the call and the exception
\* that leaves it.  due records the first cutover after the write
set_cache(key, value, expire) ==
    IF ~get_redis_pool THEN [cache |-> cache, exc |-> "none"]
    ELSE IF redis_call # "none" THEN [cache |-> cache, exc |-> "none"]
    ELSE [cache |->
            Put(cache, key,
                [stored |-> set_cache_encode(value),
                 exp |-> IF expire > 0 THEN now + expire * TicksPerSec ELSE NoExpiry,
                 due |-> NextCutAfter(now),
                 by |-> "repo"]),
          exc |-> "none"]

\* flush_cache without its except clause: the backend error leaves the call
flush_cache_uncaught ==
    IF ~get_redis_pool \/ redis_call # "none" THEN [cache |-> cache, exc |-> redis_call]
    ELSE [cache |-> EmptyCache, exc |-> "none"]

\* a flush that removes only the entries that carry an expiry
flush_cache_expiring ==
    IF ~get_redis_pool \/ redis_call # "none" THEN [cache |-> cache, exc |-> "none"]
    ELSE [cache |-> [k \in { x \in DOMAIN cache : cache[x].exp = NoExpiry } |-> cache[k]],
          exc |-> "none"]

\* flush_cache(): the cache after the call and the exception that leaves it
flush_cache ==
    IF ~get_redis_pool THEN [cache |-> cache, exc |-> "none"]
    ELSE IF redis_call # "none" THEN [cache |-> cache, exc |-> "none"]
    ELSE [cache |-> EmptyCache, exc |-> "none"]

-----------------------------------------------------------------------------
(* The running system: request tasks calling the repository, the flush     *)
(* scheduler, the clock, and the environment of the shared redis.          *)

Tasks == 1 .. NumTasks

\* the calls the request tasks make
SysCalls ==
    { LastTradingDates(2),
      Dynamics(PyNone, PyNone, PyNone, PyNone, PyNone),
      Dynamics(PyStr("None"), PyNone, PyNone, PyNone, PyNone),
      TradingResults(PyStr("A100"), PyStr("T1"), PyStr("B1"), 1) }

SysKeys == { cache_key(c) : c \in SysCalls }

\* values an earlier deployment can have left under a key: text that is no
\* JSON, records of another schema, a number
ForeignPayloads ==
    { RawText("garbage"),
      JsonText(PyList(<<PyDict([oil_id |-> PyStr("A100")])>>)),
      JsonText(PyInt(0)) }

\* what redis holds when the process starts: nothing, or one such value
InitialCaches ==
    {EmptyCache} \cup
    { Put(EmptyCache, k, [stored |-> p, exp |-> NoExpiry, due |-> 0, by |-> "ext"]) :
        k \in SysKeys, p \in ForeignPayloads }

IdleTask ==
    [pc |-> "idle", call |-> PyNone, result |-> <<>>, exc |-> "none", queries |-> 0,
     hit |-> FALSE, flushed |-> FALSE, corrupt |-> FALSE, degraded |-> FALSE,
     expectHit |-> FALSE, alone |-> TRUE]

\* the cutover window an instant falls in: d for [Cutover(d), Cutover(d + 1))
WindowOf(t) == IF t >= FlushTod THEN (t - FlushTod) \div DayTicks ELSE -1

\* the duration the scheduler loop hands to asyncio.sleep, in ticks:
\* utils.schedule_cache_flush sleeps get_seconds_until_flush() seconds,
\* main.schedule_cache_flush the untruncated difference
sleep_ticks(variant, t) ==
    IF variant = "utils" THEN get_seconds_until_flush(t) * TicksPerSec
    ELSE main_wait_ticks(t)

\* the process starts shortly before the first cutover.  startup_event has
\* created the scheduler task, either schedule_cache_flush of the repository,
\* and the task has computed its first wait and sleeps before any request is
\* served
InitSystem ==
    /\ now \in { Cutover(0) - k : k \in 0 .. StartSpread }
    /\ redisUp = TRUE
    /\ redis_client = FALSE
    /\ db = { TableRows[i] : i \in 1 .. Len(TableRows) }
    /\ sched \in { [variant |-> v, pc |-> "sleep",
                      wakeAt |-> now + sleep_ticks(v, now), since |-> now] :
                     v \in {"utils", "main"} }
    /\ tasks = [i \in Tasks |-> IdleTask]
    /\ prior = {}
    /\ used = [calls |-> 0, outages |-> 0]
    /\ hist = [flushDays |-> {}, failed |-> FALSE]
    /\ fpc = "idle"
    /\ fin = <<>>
    /\ fout = <<>>

\* requests, outages and the scheduler around the first cutover
Init ==
    /\ InitSystem
    /\ cache \in InitialCaches
    /\ lim = [calls |-> MaxCalls, outages |-> MaxOutages, horizon |-> Cutover(0) + MaxLag]

InFlight(i) == tasks[i].pc \notin {"idle", "done"}

\* a request enters a repository operation
Start(i, c) ==
    /\ tasks[i].pc = "idle"
    /\ used.calls < lim.calls
    /\ tasks' = [j \in DOMAIN tasks |->
                   IF j = i
                   THEN [IdleTask EXCEPT !.pc = "get", !.call = c,
                                         !.alone = \A k \in DOMAIN tasks \ {i} : ~InFlight(k)]
                   ELSE IF InFlight(j) THEN [tasks[j] EXCEPT !.alone = FALSE]
                   ELSE tasks[j]]
    /\ used' = [used EXCEPT !.calls = @ + 1]
    /\ UNCHANGED <<now, redisUp, redis_client, cache, db, sched, prior, lim, hist>>

\* cached = await get_cache(cache_key), and the reconstruction that follows
\* without suspending
CacheGet(i) ==
    /\ tasks[i].pc = "get"
    /\ LET c == tasks[i].call
           got == get_cache(cache_key(c))
           parsed == from_cache(c, got.ret)
           seen == [tasks[i] EXCEPT
                      !.degraded = @ \/ ~redisUp,
                      !.expectHit = redisUp /\ c \in prior,
                      !.corrupt = got.ret # PyNone /\ parsed.exc # "none"]
       IN  /\ redis_client' = get_redis_pool
           /\ cache' = got.cache
           /\ IF got.exc # "none"
              THEN /\ tasks' = [tasks EXCEPT ![i] = [seen EXCEPT !.pc = "done", !.exc = got.exc]]
                   /\ prior' = prior
              ELSE IF ~Truthy(got.ret)
              THEN /\ tasks' = [tasks EXCEPT ![i] = [seen EXCEPT !.pc = "query"]]
                   /\ prior' = prior
              ELSE IF parsed.exc = "none"
              THEN /\ tasks' = [tasks EXCEPT ![i] =
                                  [seen EXCEPT !.pc = "done", !.hit = TRUE,
                                               !.result = parsed.val]]
                   /\ prior' = prior \cup {c}
              ELSE IF except_catches(c, parsed.exc)
              THEN /\ tasks' = [tasks EXCEPT ![i] = [seen EXCEPT !.pc = "flush"]]
                   /\ prior' = prior
              ELSE /\ tasks' = [tasks EXCEPT ![i] =
                                  [seen EXCEPT !.pc = "done", !.exc = parsed.exc]]
                   /\ prior' = prior
    /\ UNCHANGED <<now, redisUp, db, sched, used, lim, hist>>

\* await flush_cache() of the except clause
CacheFlush(i) ==
    /\ tasks[i].pc = "flush"
    /\ LET r == flush_cache
       IN  /\ redis_client' = get_redis_pool
           /\ cache' = r.cache
           /\ tasks' = [tasks EXCEPT ![i] =
                          [@ EXCEPT !.pc = IF r.exc = "none" THEN "query" ELSE "done",
                                    !.exc = r.exc, !.flushed = TRUE,
                                    !.degraded = @ \/ ~redisUp]]
    /\ prior' = {}
    /\ UNCHANGED <<now, redisUp, db, sched, used, lim, hist>>

\* result = await self.db.execute(query), mapped to the typed result
Query(i) ==
    /\ tasks[i].pc = "query"
    /\ tasks' = [tasks EXCEPT ![i] =
                   [@ EXCEPT !.pc = "set", !.queries = @ + 1,
                             !.result = db_execute(tasks[i].call, db)]]
    /\ UNCHANGED <<now, redisUp, redis_client, cache, db, sched, prior, used, lim, hist>>

\* a failing store query that is answered with an empty result instead
QueryFailsRecovered(i) ==
    /\ tasks[i].pc = "query"
    /\ tasks' = [tasks EXCEPT ![i] = [@ EXCEPT !.pc = "set", !.queries = @ + 1]]
    /\ UNCHANGED <<now, redisUp, redis_client, cache, db, sched, prior, used, lim, hist>>

\* await self.db.execute(query) raises: nothing around it catches, the
\* exception leaves the operation
QueryFails(i) ==
    /\ tasks[i].pc = "query"
    /\ tasks' = [tasks EXCEPT ![i] =
                   [@ EXCEPT !.pc = "done", !.queries = @ + 1, !.exc = "DBError"]]
    /\ UNCHANGED <<now, redisUp, redis_client, cache, db, sched, prior, used, lim, hist>>

\* await set_cache(cache_key, payload, expire=get_seconds_until_flush()), and
\* the return of the result
CacheSet(i) ==
    /\ tasks[i].pc = "set"
    /\ LET c == tasks[i].call
           r == set_cache(cache_key(c), cache_payload(c, tasks[i].result),
                          get_seconds_until_flush(now))
           degraded == tasks[i].degraded \/ ~redisUp
       IN  /\ redis_client' = get_redis_pool
           /\ cache' = r.cache
           /\ tasks' = [tasks EXCEPT ![i] =
                          [@ EXCEPT !.pc = "done", !.exc = r.exc, !.degraded = degraded]]
           /\ prior' = IF degraded \/ r.exc # "none" THEN prior ELSE prior \cup {c}
    /\ UNCHANGED <<now, redisUp, db, sched, used, lim, hist>>

\* the response has been sent; the task takes the next request
Return(i) ==
    /\ tasks[i].pc = "done"
    /\ tasks' = [tasks EXCEPT ![i] = IdleTask]
    /\ UNCHANGED <<now, redisUp, redis_client, cache, db, sched, prior, used, lim, hist>>

\* while True: the wait is computed from the clock and the task goes to sleep
SchedCompute ==
    /\ sched.pc = "compute"
    /\ sched' = [sched EXCEPT !.pc = "sleep",
                              !.wakeAt = now + sleep_ticks(sched.variant, now)]
    /\ UNCHANGED <<now, redisUp, redis_client, cache, db, tasks, prior, used, lim, hist>>

\* asyncio.sleep returns and flush_cache() is called; the loop starts over
SchedWake ==
    /\ sched.pc = "sleep"
    /\ now >= sched.wakeAt
    /\ LET r == flush_cache
       IN  /\ redis_client' = get_redis_pool
           /\ cache' = r.cache
           /\ sched' = [sched EXCEPT !.pc = IF r.exc = "none" THEN "compute" ELSE "crashed",
                                     !.since = now]
    /\ hist' = [hist EXCEPT !.flushDays = @ \cup {WindowOf(now)},
                            !.failed = @ \/ ~redisUp]
    /\ prior' = {}
    /\ UNCHANGED <<now, redisUp, db, tasks, used, lim>>

\* the clock moves on to t; redis drops the keys that expire by then.  The
\* sleeping scheduler wakes on time, and reads the clock at most MaxLag
\* ticks after its flush
Advance(t) ==
    /\ t > now
    /\ t <= lim.horizon
    /\ sched.pc = "sleep" => t <= sched.wakeAt
    /\ sched.pc = "compute" => t <= sched.since + MaxLag
    /\ now' = t
    /\ cache' = Unexpired(cache, t)
    /\ prior' = IF NextCutAfter(now) <= t THEN {} ELSE prior
    /\ UNCHANGED <<redisUp, redis_client, db, sched, tasks, used, lim, hist>>

\* the clock visits every tick within JumpMargin of the scheduler's wake-up
\* and passes the rest of its sleep in one step
Tick ==
    /\ sched.pc = "sleep" => sched.wakeAt - now <= JumpMargin
    /\ Advance(now + 1)

Jump ==
    /\ sched.pc = "sleep"
    /\ sched.wakeAt - now > JumpMargin
    /\ Advance(sched.wakeAt - JumpMargin)

\* the redis server becomes unreachable, and reachable again
RedisDown ==
    /\ redisUp
    /\ used.outages < lim.outages
    /\ redisUp' = FALSE
    /\ used' = [used EXCEPT !.outages = @ + 1]
    /\ prior' = {}
    /\ UNCHANGED <<now, redis_client, cache, db, sched, tasks, lim, hist>>

RedisBack ==
    /\ ~redisUp
    /\ redisUp' = TRUE
    /\ UNCHANGED <<now, redis_client, cache, db, sched, tasks, prior, used, lim, hist>>

Next ==
    \/ \E i \in Tasks, c \in SysCalls : Start(i, c) /\ UNCHANGED purevars
    \/ \E i \in Tasks : CacheGet(i) /\ UNCHANGED purevars
    \/ \E i \in Tasks : CacheFlush(i) /\ UNCHANGED purevars
    \/ \E i \in Tasks : Query(i) /\ UNCHANGED purevars
    \/ \E i \in Tasks : CacheSet(i) /\ UNCHANGED purevars
    \/ \E i \in Tasks : Return(i) /\ UNCHANGED purevars
    \/ SchedCompute /\ UNCHANGED purevars
    \/ SchedWake /\ UNCHANGED purevars
    \/ Tick /\ UNCHANGED purevars
    \/ Jump /\ UNCHANGED purevars
    \/ RedisDown /\ UNCHANGED purevars
    \/ RedisBack /\ UNCHANGED purevars

Spec == Init /\ [][Next]_vars

\* the scheduler alone over MaxDay + 1 cutovers, with redis outages
InitDays ==
    /\ InitSystem
    /\ cache = EmptyCache
    /\ lim = [calls |-> 0, outages |-> MaxOutages, horizon |-> Cutover(MaxDay) + MaxLag]

NextDays ==
    \/ SchedCompute /\ UNCHANGED purevars
    \/ SchedWake /\ UNCHANGED purevars
    \/ Tick /\ UNCHANGED purevars
    \/ Jump /\ UNCHANGED purevars
    \/ RedisDown /\ UNCHANGED purevars
    \/ RedisBack /\ UNCHANGED purevars

SpecDays == InitDays /\ [][NextDays]_vars

\* requests and the scheduler around the first cutover, redis reachable, the
\* trading store failing at will
InitStore ==
    /\ InitSystem
    /\ cache \in InitialCaches
    /\ lim = [calls |-> MaxCalls, outages |-> 0, horizon |-> Cutover(0) + MaxLag]

NextStore ==
    \/ \E i \in Tasks, c \in SysCalls : Start(i, c) /\ UNCHANGED purevars
    \/ \E i \in Tasks : CacheGet(i) /\ UNCHANGED purevars
    \/ \E i \in Tasks : CacheFlush(i) /\ UNCHANGED purevars
    \/ \E i \in Tasks : Query(i) /\ UNCHANGED purevars
    \/ \E i \in Tasks : QueryFails(i) /\ UNCHANGED purevars
    \/ \E i \in Tasks : CacheSet(i) /\ UNCHANGED purevars
    \/ \E i \in Tasks : Return(i) /\ UNCHANGED purevars
    \/ SchedCompute /\ UNCHANGED purevars
    \/ SchedWake /\ UNCHANGED purevars
    \/ Tick /\ UNCHANGED purevars
    \/ Jump /\ UNCHANGED purevars

SpecStore == InitStore /\ [][NextStore]_vars

-----------------------------------------------------------------------------
\* the system variables of the specifications that only apply a pure function
SystemOff ==
    /\ redisUp = FALSE
    /\ redis_client = FALSE
    /\ cache = <<>>
    /\ db = {}
    /\ sched = <<>>
    /\ tasks = <<>>
    /\ prior = {}
    /\ used = <<>>
    /\ lim = <<>>
    /\ hist = <<>>

-----------------------------------------------------------------------------
(* Specification of the wait-time computation alone: the clock reading is  *)
(* drawn from every tick around the cutovers and the ends of the day.      *)

WaitInputs ==
    { t \in 0 .. (MaxDay + 1) * DayTicks :
        \E d \in 0 .. MaxDay :
            \/ t - Cutover(d) \in -(WaitWindow * TicksPerSec) .. (WaitWindow * TicksPerSec)
            \/ t - d * DayTicks \in 0 .. (WaitWindow * TicksPerSec)
            \/ (d + 1) * DayTicks - t \in 1 .. (WaitWindow * TicksPerSec) }

InitWait ==
    /\ SystemOff
    /\ now \in WaitInputs
    /\ fpc = "idle"
    /\ fin = <<>>
    /\ fout = <<>>

ComputeWait ==
    /\ fpc = "idle"
    /\ fpc' = "done"
    /\ fout' = [secs |-> get_seconds_until_flush(now), sleep |-> main_wait_ticks(now)]
    /\ UNCHANGED <<now, fin>>
    /\ UNCHANGED sysvars

NextWait == ComputeWait

SpecWait == InitWait /\ [][NextWait]_vars

-----------------------------------------------------------------------------
(* Specification of the cache keys alone: two calls are drawn from the     *)
(* argument values below and their keys are built.                         *)

KeyOilIds == {PyNone, PyStr("None"), PyStr("A100"), PyStr("A100:T1"), PyStr("")}
KeyDeliveryTypeIds == {PyNone, PyStr("T1"), PyStr("T1:B1")}
KeyDeliveryBasisIds == {PyNone, PyStr("B1")}
KeyStartDates == {PyNone, PyDatetime(1, 0)}
KeyEndDates == {PyNone, PyDatetime(1, 0), PyDatetime(3, 12)}
KeyLimits == {1, 10, 100}

KeyCalls ==
    { LastTradingDates(l) : l \in KeyLimits }
    \cup { Dynamics(o, dt, b, sd, ed) :
              o \in KeyOilIds, dt \in KeyDeliveryTypeIds, b \in KeyDeliveryBasisIds,
              sd \in KeyStartDates, ed \in KeyEndDates }
    \cup { TradingResults(o, dt, b, l) :
              o \in KeyOilIds, dt \in KeyDeliveryTypeIds, b \in KeyDeliveryBasisIds,
              l \in KeyLimits }

InitKeys ==
    /\ SystemOff
    /\ now = 0
    /\ fpc = "idle"
    /\ fin \in KeyCalls \X KeyCalls
    /\ fout = <<>>

BuildKeys ==
    /\ fpc = "idle"
    /\ fpc' = "done"
    /\ fout' = <<cache_key(fin[1]), cache_key(fin[2])>>
    /\ UNCHANGED <<now, fin>>
    /\ UNCHANGED sysvars

NextKeys == BuildKeys

SpecKeys == InitKeys /\ [][NextKeys]_vars

-----------------------------------------------------------------------------
(* Specification of the store queries and of the way a result travels      *)
(* through the cache: a store content and a call are drawn, the query of   *)
(* the repository and the query of app/crud.py are evaluated on it, and    *)
(* the result is written to the cache, read back and reconstructed.        *)

\* the rows a store of this specification is drawn from: all datetimes differ
QueryRows ==
    { TableRows[i] : i \in 1 .. Len(TableRows) } \cup
    { Row(5, "A100", "T2", "B1", 2, 12), Row(6, "A100", "T1", "B2", 1, 12) }

QueryOilIds == {PyNone, PyStr(""), PyStr("A100"), PyStr("B200")}
QueryDeliveryTypeIds == {PyNone, PyStr("T1"), PyStr("T2")}
QueryDeliveryBasisIds == {PyNone, PyStr("B1")}
QueryStartDates == {PyNone, PyDatetime(2, 0)}
QueryEndDates == {PyNone, PyDatetime(3, 0)}
QueryLimits == 1 .. 3

QueryCalls ==
    { LastTradingDates(l) : l \in QueryLimits }
    \cup { Dynamics(o, dt, b, sd, ed) :
              o \in QueryOilIds, dt \in QueryDeliveryTypeIds, b \in QueryDeliveryBasisIds,
              sd \in QueryStartDates, ed \in QueryEndDates }
    \cup { TradingResults(o, dt, b, l) :
              o \in QueryOilIds, dt \in QueryDeliveryTypeIds, b \in QueryDeliveryBasisIds,
              l \in QueryLimits }

\* crud.get_trading_results: the three equalities are always part of the query
crud_get_trading_results(c, rows) ==
    LET got == Limit(OrderRowsByDateDesc({ r \in rows :
                        /\ r.oil_id = c.oil_id
                        /\ r.delivery_type_id = c.delivery_type_id
                        /\ r.delivery_basis_id = c.delivery_basis_id }),
                     c.limit.n)
    IN  [ i \in 1 .. Len(got) |-> from_orm(got[i]) ]

\* the query of app/crud.py for call c; get_last_trading_dates and
\* get_dynamics build the query the repository builds
crud_execute(c, rows) ==
    IF c.op = "trading_results" THEN crud_get_trading_results(c, rows)
    ELSE db_execute(c, rows)

InitQuery ==
    /\ SystemOff
    /\ now = 0
    /\ fpc = "idle"
    /\ fin \in [call : QueryCalls, rows : SUBSET QueryRows]
    /\ fout = <<>>

\* a miss of the repository operation: the store is queried, the payload is
\* handed to set_cache; then what get_cache returns for that entry and what
\* the operation reconstructs from it
RunQuery ==
    /\ fpc = "idle"
    /\ fpc' = "done"
    /\ LET c == fin.call
           result == db_execute(c, fin.rows)
           got == get_cache_decode(set_cache_encode(cache_payload(c, result)))
       IN  fout' = [result |-> result, crud |-> crud_execute(c, fin.rows),
                    got |-> got, back |-> from_cache(c, got)]
    /\ UNCHANGED <<now, fin>>
    /\ UNCHANGED sysvars

NextQuery == RunQuery

SpecQuery == InitQuery /\ [][NextQuery]_vars

-----------------------------------------------------------------------------
(* Specification of the cache store alone (app/cache.py): set_cache,       *)
(* get_cache and flush_cache are called in any order with redis reachable, *)
(* and time passes.  fin holds the value last handed to set_cache per key, *)
(* fout the last step: what was called, what it returned, the store before. *)

\* calls of the cache operations in one run, and seconds the clock may reach
MaxCacheOps == 3
MaxCacheSecs == 2

CacheKeys == {"k1", "k2"}
CacheValues ==
    { PyStr("garbage"), PyStr("12"), PyStr(""), PyInt(7),
      PyList(<<PyStr("A100"), PyInt(0)>>), PyDict([oil_id |-> PyStr("A100")]) }
CacheTtls == {-1, 0, 1, 2}

LastStep(n, op, key, expire, ret, exc) ==
    [n |-> n, op |-> op, key |-> key, expire |-> expire, ret |-> ret, exc |-> exc,
     before |-> cache, prev |-> fout.op]

InitCache ==
    /\ now = 0
    /\ redisUp = TRUE
    /\ redis_client = FALSE
    /\ cache = EmptyCache
    /\ db = {}
    /\ sched = <<>>
    /\ tasks = <<>>
    /\ prior = {}
    /\ used = <<>>
    /\ lim = <<>>
    /\ hist = <<>>
    /\ fpc = "idle"
    /\ fin = EmptyCache
    /\ fout = [n |-> 0, op |-> "none", key |-> "", expire |-> 0, ret |-> PyNone,
               exc |-> "none", before |-> EmptyCache, prev |-> "none"]

CacheFrame == UNCHANGED <<redisUp, db, sched, tasks, prior, used, lim, hist, fpc>>

\* await set_cache(key, value, expire)
CallSetCache(key, value, expire) ==
    /\ fout.n < MaxCacheOps
    /\ LET r == set_cache(key, value, expire)
       IN  /\ cache' = r.cache
           /\ fout' = LastStep(fout.n + 1, "set", key, expire, PyNone, r.exc)
    /\ redis_client' = get_redis_pool
    /\ fin' = Put(fin, key, value)
    /\ now' = now
    /\ CacheFrame

\* await get_cache(key)
CallGetCache(key) ==
    /\ fout.n < MaxCacheOps
    /\ LET g == get_cache(key)
       IN  /\ cache' = g.cache
           /\ fout' = LastStep(fout.n + 1, "get", key, 0, g.ret, g.exc)
    /\ redis_client' = get_redis_pool
    /\ UNCHANGED <<now, fin>>
    /\ CacheFrame

\* await flush_cache()
CallFlushCache ==
    /\ fout.n < MaxCacheOps
    /\ LET r == flush_cache
       IN  /\ cache' = r.cache
           /\ fout' = LastStep(fout.n + 1, "flush", "", 0, PyNone, r.exc)
    /\ redis_client' = get_redis_pool
    /\ fin' = EmptyCache
    /\ now' = now
    /\ CacheFrame

\* a second passes; redis drops the keys that expire by then
CacheSecond ==
    /\ now + TicksPerSec <= MaxCacheSecs * TicksPerSec
    /\ now' = now + TicksPerSec
    /\ cache' = Unexpired(cache, now')
    /\ fout' = LastStep(fout.n, "time", "", 0, PyNone, "none")
    /\ UNCHANGED <<redis_client, fin>>
    /\ CacheFrame

NextCache ==
    \/ \E k \in CacheKeys, v \in CacheValues, e \in CacheTtls : CallSetCache(k, v, e)
    \/ \E k \in CacheKeys : CallGetCache(k)
    \/ CallFlushCache
    \/ CacheSecond

SpecCache == InitCache /\ [][NextCache]_vars

-----------------------------------------------------------------------------
(* Specification of concurrent requests on a growing store: several tasks  *)
(* call the repository with the same parameters while rows are appended to *)
(* the trading store; no flush happens and no entry expires.  fout holds,  *)
(* per call, the newest store state a returned result has reflected; fin   *)
(* holds, per task, that state as it was when the task's call started.     *)

\* request tasks in flight at once, and calls started in one run
NumRaceTasks == 2
MaxRaceCalls == 3

RaceTasks == 1 .. NumRaceTasks

RaceCalls ==
    { LastTradingDates(2), Dynamics(PyNone, PyNone, PyNone, PyNone, PyNone) }

\* the store after n rows have been appended
StoreAt(n) == { TableRows[i] : i \in 1 .. n }

\* the store states a result of call c reflects
VersionsOf(c, result) ==
    { n \in 0 .. Len(TableRows) : db_execute(c, StoreAt(n)) = result }

\* the newest store state reflected by a returned result of call c, once
\* task i has taken its step
Returned(i, c) ==
    IF tasks'[i].pc = "done" /\ tasks[i].pc # "done" /\ tasks'[i].exc = "none"
       /\ tasks'[i].call = c
    THEN LET n == CHOOSE v \in VersionsOf(c, tasks'[i].result) :
                      \A w \in VersionsOf(c, tasks'[i].result) : v <= w
         IN  IF n > fout[c] THEN n ELSE fout[c]
    ELSE fout[c]

InitRace ==
    /\ now = 0
    /\ redisUp = TRUE
    /\ redis_client = FALSE
    /\ cache = EmptyCache
    /\ db = StoreAt(1)
    /\ sched = [variant |-> "main", pc |-> "sleep",
                wakeAt |-> now + sleep_ticks("main", now), since |-> now]
    /\ tasks = [i \in RaceTasks |-> IdleTask]
    /\ prior = {}
    /\ used = [calls |-> 0, outages |-> 0]
    /\ lim = [calls |-> MaxRaceCalls, outages |-> 0, horizon |-> 0]
    /\ hist = [flushDays |-> {}, failed |-> FALSE]
    /\ fpc = "idle"
    /\ fin = [i \in RaceTasks |-> 0]
    /\ fout = [c \in RaceCalls |-> 0]

\* a row is appended to the trading store
AppendRow ==
    /\ Cardinality(db) < Len(TableRows)
    /\ db' = StoreAt(Cardinality(db) + 1)
    /\ UNCHANGED <<now, redisUp, redis_client, cache, sched, tasks, prior, used, lim, hist>>

NextRace ==
    \/ \E i \in RaceTasks, c \in RaceCalls :
          Start(i, c) /\ fin' = [fin EXCEPT ![i] = fout[c]] /\ UNCHANGED <<fpc, fout>>
    \/ \E i \in RaceTasks :
          CacheGet(i) /\ fout' = [c \in RaceCalls |-> Returned(i, c)] /\ UNCHANGED <<fpc, fin>>
    \/ \E i \in RaceTasks : Query(i) /\ UNCHANGED purevars
    \/ \E i \in RaceTasks :
          CacheSet(i) /\ fout' = [c \in RaceCalls |-> Returned(i, c)] /\ UNCHANGED <<fpc, fin>>
    \/ \E i \in RaceTasks : Return(i) /\ UNCHANGED purevars
    \/ AppendRow /\ UNCHANGED purevars

SpecRace == InitRace /\ [][NextRace]_vars

-----------------------------------------------------------------------------
(* Specification of repeated reads: requests with parameters whose results *)
(* are not empty, redis reachable and empty at the start, the scheduler and *)
(* the clock around the first cutover.  fout holds, per key, the entry as   *)
(* the last set_cache stored it; fin holds, per key, how many calls have    *)
(* been served from that entry since.                                       *)

\* calls started in one run
MaxHitCalls == 3

HitCalls ==
    { LastTradingDates(2),
      Dynamics(PyNone, PyNone, PyNone, PyNone, PyNone),
      TradingResults(PyStr("A100"), PyStr("T1"), PyStr("B1"), 1) }

HitKeys == { cache_key(c) : c \in HitCalls }

\* the entries as written, once task i has taken its set_cache step
WrittenAfter(i) ==
    LET k == cache_key(tasks[i].call)
    IN  IF k \in DOMAIN cache' THEN Put(fout, k, cache'[k]) ELSE fout

\* the reads served per entry, once task i has taken its get_cache step
ServedAfter(i) ==
    LET k == cache_key(tasks[i].call)
    IN  IF tasks'[i].hit THEN [fin EXCEPT ![k] = @ + 1] ELSE fin

InitHits ==
    /\ now \in { Cutover(0) - k : k \in 0 .. StartSpread }
    /\ redisUp = TRUE
    /\ redis_client = FALSE
    /\ cache = EmptyCache
    /\ db = { TableRows[i] : i \in 1 .. Len(TableRows) }
    /\ sched \in { [variant |-> v, pc |-> "sleep",
                      wakeAt |-> now + sleep_ticks(v, now), since |-> now] :
                     v \in {"utils", "main"} }
    /\ tasks = [i \in Tasks |-> IdleTask]
    /\ prior = {}
    /\ used = [calls |-> 0, outages |-> 0]
    /\ lim = [calls |-> MaxHitCalls, outages |-> 0, horizon |-> Cutover(0) + MaxLag]
    /\ hist = [flushDays |-> {}, failed |-> FALSE]
    /\ fpc = "idle"
    /\ fin = [k \in HitKeys |-> 0]
    /\ fout = EmptyCache

NextHits ==
    \/ \E i \in Tasks, c \in HitCalls : Start(i, c) /\ UNCHANGED purevars
    \/ \E i \in Tasks : CacheGet(i) /\ fin' = ServedAfter(i) /\ UNCHANGED <<fpc, fout>>
    \/ \E i \in Tasks : Query(i) /\ UNCHANGED purevars
    \/ \E i \in Tasks :
          /\ CacheSet(i)
          /\ fout' = WrittenAfter(i)
          /\ fin' = [fin EXCEPT ![cache_key(tasks[i].call)] = 0]
          /\ fpc' = fpc
    \/ \E i \in Tasks : Return(i) /\ UNCHANGED purevars
    \/ SchedCompute /\ UNCHANGED purevars
    \/ SchedWake /\ UNCHANGED purevars
    \/ Tick /\ UNCHANGED purevars
    \/ Jump /\ UNCHANGED purevars

SpecHits == InitHits /\ [][NextHits]_vars

-----------------------------------------------------------------------------
(* Specification of the scheduler through redis outages: the loop alone    *)
(* over MaxDay + 1 cutovers.  fout describes the loop's last flush_cache   *)
(* call: failedAt is its instant and target the cutover it was scheduled   *)
(* for when redis could not be reached during it (-1 otherwise), and       *)
(* prevTarget is the cutover of the failed call it followed (-1 when the   *)
(* call before it had not failed).                                         *)

\* the cutover a sleep that ends at t was aimed at: the truncated wait ends
\* less than a second before it
TargetOf(t) == NextCutAfter(t - 1)

\* the description of the call, once the loop has made it
FlushedAfter ==
    [failedAt |-> IF redisUp THEN -1 ELSE now,
     target |-> IF redisUp THEN -1 ELSE TargetOf(sched.wakeAt),
     prevTarget |-> fout.target]

InitRetry ==
    /\ now \in { Cutover(0) - k : k \in 0 .. StartSpread }
    /\ redisUp = TRUE
    /\ redis_client = FALSE
    /\ cache = EmptyCache
    /\ db = { TableRows[i] : i \in 1 .. Len(TableRows) }
    /\ sched \in { [variant |-> v, pc |-> "sleep",
                      wakeAt |-> now + sleep_ticks(v, now), since |-> now] :
                     v \in {"utils", "main"} }
    /\ tasks = [i \in Tasks |-> IdleTask]
    /\ prior = {}
    /\ used = [calls |-> 0, outages |-> 0]
    /\ lim = [calls |-> 0, outages |-> MaxOutages, horizon |-> Cutover(MaxDay) + MaxLag]
    /\ hist = [flushDays |-> {}, failed |-> FALSE]
    /\ fpc = "idle"
    /\ fin = <<>>
    /\ fout = [failedAt |-> -1, target |-> -1, prevTarget |-> -1]

NextRetry ==
    \/ SchedCompute /\ UNCHANGED purevars
    \/ SchedWake /\ fout' = FlushedAfter /\ UNCHANGED <<fpc, fin>>
    \/ Tick /\ UNCHANGED purevars
    \/ Jump /\ UNCHANGED purevars
    \/ RedisDown /\ UNCHANGED purevars
    \/ RedisBack /\ UNCHANGED purevars

SpecRetry == InitRetry /\ [][NextRetry]_vars

-----------------------------------------------------------------------------
(* Specification of recovery from an outage: requests, the scheduler and   *)
(* the clock around the first cutover, redis empty at the start and        *)
(* unreachable once for any stretch.  fout.noops counts the cache          *)
(* operations that returned at `if not redis` because get_redis_pool could *)
(* not connect; fout.recovered tells that redis has become reachable again *)
(* after such operations.                                                  *)

\* calls started in one run
MaxRecoverCalls == 3

\* a call with a result and a call without one
RecoverCalls ==
    { LastTradingDates(2),
      Dynamics(PyStr("None"), PyNone, PyNone, PyNone, PyNone) }

\* operations without a connection that are told apart; more count as this
MaxNoops == 2

\* the count after one more cache operation
NoopsAfter ==
    [fout EXCEPT !.noops = IF get_redis_pool \/ @ = MaxNoops THEN @ ELSE @ + 1]

InitRecover ==
    /\ now \in { Cutover(0) - k : k \in 0 .. StartSpread }
    /\ redisUp = TRUE
    /\ redis_client = FALSE
    /\ cache = EmptyCache
    /\ db = { TableRows[i] : i \in 1 .. Len(TableRows) }
    /\ sched \in { [variant |-> v, pc |-> "sleep",
                      wakeAt |-> now + sleep_ticks(v, now), since |-> now] :
                     v \in {"utils", "main"} }
    /\ tasks = [i \in Tasks |-> IdleTask]
    /\ prior = {}
    /\ used = [calls |-> 0, outages |-> 0]
    /\ lim = [calls |-> MaxRecoverCalls, outages |-> MaxOutages,
              horizon |-> Cutover(0) + MaxLag]
    /\ hist = [flushDays |-> {}, failed |-> FALSE]
    /\ fpc = "idle"
    /\ fin = <<>>
    /\ fout = [noops |-> 0, recovered |-> FALSE]

NextRecover ==
    \/ \E i \in Tasks, c \in RecoverCalls : Start(i, c) /\ UNCHANGED purevars
    \/ \E i \in Tasks : CacheGet(i) /\ fout' = NoopsAfter /\ UNCHANGED <<fpc, fin>>
    \/ \E i \in Tasks : Query(i) /\ UNCHANGED purevars
    \/ \E i \in Tasks : CacheSet(i) /\ fout' = NoopsAfter /\ UNCHANGED <<fpc, fin>>
    \/ \E i \in Tasks : Return(i) /\ UNCHANGED purevars
    \/ SchedCompute /\ UNCHANGED purevars
    \/ SchedWake /\ fout' = NoopsAfter /\ UNCHANGED <<fpc, fin>>
    \/ Tick /\ UNCHANGED purevars
    \/ Jump /\ UNCHANGED purevars
    \/ RedisDown /\ UNCHANGED purevars
    \/ RedisBack /\ fout' = [fout EXCEPT !.recovered = fout.noops > 0]
                 /\ UNCHANGED <<fpc, fin>>

SpecRecover == InitRecover /\ [][NextRecover]_vars

-----------------------------------------------------------------------------
(* Claims *)

\* the entries the repository operations have written
RepoKeys == { k \in DOMAIN cache : cache[k].by = "repo" }

\* C1: every cache entry written by a repository operation is stored with an
\* expiry, and the expiry instant is never later than the next 14:11 cutover
\* following the write, at whatever time the write happens.
C1_EntriesExpireByCutover ==
    \A k \in RepoKeys : cache[k].exp # NoExpiry /\ cache[k].exp <= cache[k].due

\* C2: when a call repeats the parameters of a call that returned before it,
\* with the cache available, no flush in between and no cutover passed, it is
\* served from the cache and does not query the trading store.
C2_RepeatedCallHits ==
    \A i \in Tasks : tasks[i].expectHit => tasks[i].hit /\ tasks[i].queries = 0

\* C3: cache keys are injective: two distinct parameter tuples of one
\* operation never yield the same key, and keys of different operations
\* never coincide.
C3_KeysInjective ==
    fpc = "done" => (fin[1] # fin[2] => fout[1] # fout[2])

\* C4: a call that found a payload under its key which cannot be
\* reconstructed into the typed result raises no error, queries the trading
\* store exactly once and returns the result of that query.
C4_CorruptionRecovers ==
    \A i \in Tasks :
        tasks[i].pc = "done" /\ tasks[i].corrupt =>
            /\ tasks[i].exc = "none"
            /\ tasks[i].queries = 1
            /\ tasks[i].result = db_execute(tasks[i].call, db)

\* C5: a call that found an unparseable payload under its key has invoked
\* flush_cache, and when it completes, no other task having run and redis
\* reachable throughout, the cache holds exactly the entry of its own key.
C5_CorruptionFlushesAll ==
    [][ \A i \in Tasks :
          (/\ tasks[i].pc # "done"
           /\ tasks'[i].pc = "done"
           /\ tasks'[i].corrupt
           /\ tasks'[i].alone
           /\ ~tasks'[i].degraded)
          => /\ tasks'[i].flushed
             /\ DOMAIN cache' = {cache_key(tasks'[i].call)} ]_vars

\* C6: while redis cannot be reached no cache operation raises to its caller:
\* get_cache returns None (the caller goes on to the store), set_cache stores
\* nothing, flush_cache removes nothing, and the caller continues.
C6_CacheNeverRaises ==
    [][ ~redisUp =>
          /\ \A i \in Tasks :
                tasks[i].pc \in {"get", "flush", "set"} /\ tasks'[i].pc # tasks[i].pc =>
                    /\ tasks'[i].exc = "none"
                    /\ cache' = cache
                    /\ tasks[i].pc = "get" => tasks'[i].pc = "query"
                    /\ tasks[i].pc = "flush" => tasks'[i].pc = "query"
                    /\ tasks[i].pc = "set" => tasks'[i].pc = "done"
          /\ sched.pc = "sleep" /\ sched'.pc # "sleep" =>
                /\ sched'.pc = "compute"
                /\ cache' = cache ]_vars

\* C6 witness: with redis unreachable and entries in it, a call has gone
\* through get_cache and set_cache and has returned the store's result
C6_Witness ==
    /\ ~redisUp
    /\ cache # EmptyCache
    /\ \E i \in Tasks :
          /\ tasks[i].pc = "done"
          /\ tasks[i].degraded
          /\ tasks[i].queries = 1
          /\ tasks[i].exc = "none"

\* C7: with the trading store unchanged, every call returns without an error
\* exactly what the direct store query returns for its own parameters,
\* whatever the cache holds or does.
C7_CacheInvisible ==
    \A i \in Tasks :
        tasks[i].pc = "done" =>
            /\ tasks[i].exc = "none"
            /\ tasks[i].result = db_execute(tasks[i].call, db)

\* 14:11 of the day the instant t falls in
TodayCutover(t) == Cutover(t \div DayTicks)

\* C8 as stated: the next cutover is today's 14:11 if that instant is still in
\* the future, otherwise tomorrow's, and the computed wait is exactly
\* (next cutover - now) in seconds, never negative.
C8_WaitIsExactDifference ==
    fpc = "done" =>
        LET next == IF TodayCutover(now) > now THEN TodayCutover(now)
                    ELSE TodayCutover(now) + DayTicks
        IN  /\ fout.secs >= 0
            /\ fout.secs * TicksPerSec = next - now
            /\ fout.sleep = next - now

\* C8 amended: the next cutover is today's 14:11 while now is not later than
\* it (exactly at 14:11 the wait is 0), tomorrow's otherwise;
\* get_seconds_until_flush returns the whole seconds of (next cutover - now),
\* the fraction dropped, and the scheduler of main.py sleeps the full
\* difference; neither is ever negative.
C8_WaitIsWholeSeconds ==
    fpc = "done" =>
        LET next == IF TodayCutover(now) >= now THEN TodayCutover(now)
                    ELSE TodayCutover(now) + DayTicks
        IN  /\ fout.secs >= 0
            /\ fout.secs * TicksPerSec <= next - now
            /\ next - now < (fout.secs + 1) * TicksPerSec
            /\ fout.sleep = next - now
            /\ fout.sleep >= 0

\* C8 witness: a wait computed after 14:11 at a clock reading that is not on
\* a whole second, reaching to tomorrow's cutover
C8_Witness ==
    /\ fpc = "done"
    /\ now > TodayCutover(now)
    /\ now % TicksPerSec # 0
    /\ fout.secs = SecondsPerDay - 1 - (now - TodayCutover(now)) \div TicksPerSec

\* C9: the scheduler loop never ends, and for every cutover that occurs while
\* the process runs it calls flush_cache at or after that cutover and before
\* the following one.
C9_FlushInEveryWindow ==
    /\ sched.pc \in {"compute", "sleep"}
    /\ \A d \in 0 .. MaxDay : now >= Cutover(d + 1) => d \in hist.flushDays

\* C10: the scheduled flushes succeeding, an entry a repository operation
\* wrote at time t is readable at most until the first cutover after t.
C10_NoEntryOutlivesCutover ==
    ~hist.failed => \A k \in RepoKeys : now <= cache[k].due


\* C11: a repository operation leaves its store query in one of two ways:
\* with the store's result, or, when the query fails, with the store's error
\* handed to the caller, no result and the cache untouched; a call that has
\* failed does nothing more, so it writes no cache entry.
C11_StoreFailurePropagates ==
    [][ \A i \in Tasks :
          /\ (tasks[i].pc = "query" /\ tasks'[i].pc # "query") =>
                \/ /\ tasks'[i].pc = "set"
                   /\ tasks'[i].exc = "none"
                   /\ tasks'[i].result = db_execute(tasks[i].call, db)
                \/ /\ tasks'[i].pc = "done"
                   /\ tasks'[i].exc = "DBError"
                   /\ tasks'[i].result = <<>>
                   /\ cache' = cache
          /\ (tasks[i].exc = "DBError" /\ tasks'[i] # tasks[i]) =>
                /\ tasks'[i] = IdleTask
                /\ cache' = cache ]_vars

\* C11 witness: a call has ended with the store's error and the cache holds
\* no entry under its key
C11_Witness ==
    \E i \in Tasks :
        /\ tasks[i].pc = "done"
        /\ tasks[i].exc = "DBError"
        /\ tasks[i].queries = 1
        /\ cache_key(tasks[i].call) \notin DOMAIN cache

\* the rows of the drawn store that carry the three identifiers of call c
MatchingRows(c, rows) ==
    { r \in rows : /\ r.oil_id = c.oil_id
                   /\ r.delivery_type_id = c.delivery_type_id
                   /\ r.delivery_basis_id = c.delivery_basis_id }

\* a sequence of TradingResult is in descending order of date
DescendingByDate(res) ==
    \A i, j \in 1 .. Len(res) : i < j => DtOrd(res[i].f.date) >= DtOrd(res[j].f.date)

\* res holds the n most recent rows of the set S, newest first
MostRecentOf(res, S, n) ==
    /\ \A i \in 1 .. Len(res) : res[i].f \in S
    /\ \A i, j \in 1 .. Len(res) : i # j => res[i] # res[j]
    /\ DescendingByDate(res)
    /\ Len(res) = IF n < Cardinality(S) THEN n ELSE Cardinality(S)
    /\ \A r \in S : (\A i \in 1 .. Len(res) : res[i].f # r) =>
            \A i \in 1 .. Len(res) : DtOrd(r.date) <= DtOrd(res[i].f.date)

\* C12: get_trading_results on a miss returns only rows whose oil type,
\* delivery type and delivery basis equal the three given values, newest
\* first, the limit most recent of them, whatever values the arguments take;
\* in the repository and in app/crud.py.
C12_TradingResultsMatchAll ==
    fpc = "done" /\ fin.call.op = "trading_results" =>
        /\ MostRecentOf(fout.result, MatchingRows(fin.call, fin.rows), fin.call.limit.n)
        /\ MostRecentOf(fout.crud, MatchingRows(fin.call, fin.rows), fin.call.limit.n)

\* the rows that satisfy every filter of call c that was provided (is not None)
ProvidedFiltersRows(c, rows) ==
    { r \in rows :
        /\ c.oil_id # PyNone => r.oil_id = c.oil_id
        /\ c.delivery_type_id # PyNone => r.delivery_type_id = c.delivery_type_id
        /\ c.delivery_basis_id # PyNone => r.delivery_basis_id = c.delivery_basis_id
        /\ c.start_date # PyNone => DtOrd(r.date) >= DtOrd(c.start_date)
        /\ c.end_date # PyNone => DtOrd(r.date) <= DtOrd(c.end_date) }

\* C13: get_dynamics on a miss returns exactly the rows that satisfy every
\* provided filter, a filter constraining the result if and only if it was
\* provided, newest first and without a limit.
C13_DynamicsAppliesProvidedFilters ==
    fpc = "done" /\ fin.call.op = "dynamics" =>
        MostRecentOf(fout.result, ProvidedFiltersRows(fin.call, fin.rows),
                     Cardinality(fin.rows))

\* C14: get_last_trading_dates(limit) on a miss returns the limit most recent
\* distinct calendar dates of the store: no date twice, strictly descending,
\* min(limit, number of distinct trade dates) of them.
C14_LastDatesDistinct ==
    fpc = "done" /\ fin.call.op = "last_trading_dates" =>
        LET days == { r.date.day : r \in fin.rows }
            res == fout.result
        IN  /\ \A i, j \in 1 .. Len(res) : i < j => res[i].day > res[j].day
            /\ Len(res) = IF fin.call.limit.n < Cardinality(days)
                          THEN fin.call.limit.n ELSE Cardinality(days)
            /\ \A i \in 1 .. Len(res) : res[i].day \in days
            /\ \A d \in days : (\A i \in 1 .. Len(res) : res[i].day # d) =>
                    \A i \in 1 .. Len(res) : d < res[i].day

C15_GetReturnsStoredValue ==
    fout.op = "get" =>
        /\ fout.exc = "none"
        /\ fout.ret = IF fout.key \in DOMAIN cache THEN fin[fout.key] ELSE PyNone

\* C16: set_cache(key, value, expire) replaces the entry of key, value and
\* expiry together: without expiry when expire <= 0 (whatever the replaced
\* entry had), expiring expire seconds after the call when expire > 0; the
\* entries of other keys stay as they are; and an entry is gone exactly when
\* its expiry is reached.
C16_SetReplacesEntry ==
    /\ fout.op = "set" =>
          /\ fout.exc = "none"
          /\ DOMAIN cache = DOMAIN fout.before \cup {fout.key}
          /\ \A k \in DOMAIN fout.before : k # fout.key => cache[k] = fout.before[k]
          /\ cache[fout.key].stored = set_cache_encode(fin[fout.key])
          /\ cache[fout.key].exp = IF fout.expire > 0
                                   THEN now + fout.expire * TicksPerSec ELSE NoExpiry
    /\ fout.op = "time" =>
          /\ DOMAIN cache = { k \in DOMAIN fout.before :
                                fout.before[k].exp = NoExpiry \/ fout.before[k].exp > now }
          /\ \A k \in DOMAIN cache : cache[k] = fout.before[k]

\* C16 witness: an entry that had an expiry has been replaced by a set with
\* expire <= 0 and now has none, next to an entry under another key
C16_Witness ==
    /\ fout.op = "set"
    /\ fout.expire <= 0
    /\ fout.key \in DOMAIN fout.before
    /\ fout.before[fout.key].exp # NoExpiry
    /\ fout.before[fout.key].stored # cache[fout.key].stored
    /\ cache[fout.key].exp = NoExpiry
    /\ DOMAIN cache = CacheKeys

\* C17: with redis reachable, after flush_cache the store holds no entry,
\* whatever it held before, with or without expiry; a second flush_cache in a
\* row leaves it empty again; neither raises.
C17_FlushEmpties ==
    fout.op = "flush" => cache = EmptyCache /\ fout.exc = "none"

\* C17 witness: flush_cache called twice in a row, the first call on a store
\* that held an entry
C17_Witness ==
    /\ fout.op = "flush"
    /\ fout.prev = "flush"
    /\ fout.before = EmptyCache
    /\ cache = EmptyCache
    /\ fout.n = MaxCacheOps

\* C19: the scheduler calls flush_cache exactly once per cutover: two
\* consecutive flush calls of the loop are never for the same cutover, they
\* lie more than half a day apart.
C19_OneFlushPerCutover ==
    [][ (sched.pc = "sleep" /\ sched'.pc = "compute" /\ hist.flushDays # {})
          => 2 * (now - sched.since) > DayTicks ]_vars

\* C20: with no flush in between, a call that returns has a result that
\* reflects a store state at least as new as every state reflected by a
\* result that a call with the same parameters had returned before it
\* started, however concurrent misses on the key interleave.
C20_ResultsNeverGoBack ==
    \A i \in DOMAIN tasks :
        tasks[i].pc = "done" /\ tasks[i].exc = "none" =>
            \E n \in VersionsOf(tasks[i].call, tasks[i].result) : n >= fin[i]

\* C21: a call served from the cache leaves the cache as it was: the call
\* goes from its get_cache straight to its return, with no store query, no
\* set_cache and no flush_cache, and the entry it read still has the value
\* and the expiry instant the last set_cache gave it, however many calls have
\* been served from it.
C21_HitLeavesCacheUnchanged ==
    [][ \A i \in Tasks :
          tasks[i].pc = "get" /\ tasks'[i].hit =>
              /\ cache' = cache
              /\ tasks'[i].pc = "done"
              /\ tasks'[i].queries = 0
              /\ ~tasks'[i].flushed
              /\ cache_key(tasks[i].call) \in DOMAIN cache'
              /\ cache'[cache_key(tasks[i].call)] = fout'[cache_key(tasks[i].call)] ]_vars

\* C21 witness: a second call in a row has been served from one entry, which
\* is still the entry as written
C21_Witness ==
    \E i \in Tasks :
        /\ tasks[i].pc = "done"
        /\ tasks[i].hit
        /\ fin[cache_key(tasks[i].call)] >= 2
        /\ cache_key(tasks[i].call) \in DOMAIN cache
        /\ cache[cache_key(tasks[i].call)].exp # NoExpiry

\* C22: a flush_cache call of the scheduler that fails, redis being
\* unreachable during it, does not end the loop: the scheduler task computes
\* its next wait and sleeps, and it calls flush_cache again no later than
\* the cutover that follows the one the failed call was scheduled for.
C22_FailedFlushIsRetried ==
    /\ sched.pc \in {"compute", "sleep"}
    /\ fout.failedAt >= 0 =>
          /\ sched.since = fout.failedAt
          /\ now <= fout.target + DayTicks
          /\ sched.pc = "sleep" => sched.wakeAt <= fout.target + DayTicks
    /\ fout.prevTarget >= 0 => sched.since <= fout.prevTarget + DayTicks

\* C22 witness: the call for the first cutover failed, and the loop has
\* called flush_cache at the following cutover
C22_Witness ==
    /\ fout.prevTarget = Cutover(0)
    /\ sched.since > Cutover(0) + MaxLag
    /\ sched.since <= Cutover(1)
    /\ sched.pc = "compute"

\* the cache operations of a request take effect once redis is reachable
\* again after operations that could not connect: set_cache connects and
\* stores the payload under the key, get_cache hands a stored payload on
RecoveredOpsTakeEffect ==
    \A i \in Tasks :
        LET c == tasks[i].call
            k == cache_key(c)
        IN  /\ tasks[i].pc = "set" /\ tasks'[i].pc = "done" =>
                  /\ redis_client'
                  /\ k \in DOMAIN cache'
                  /\ cache'[k].stored =
                        set_cache_encode(cache_payload(c, tasks[i].result))
            /\ tasks[i].pc = "get" /\ tasks'[i].pc = "query" =>
                  /\ redis_client'
                  /\ k \in DOMAIN cache => ~Truthy(get_cache_decode(cache[k].stored))
            /\ tasks[i].pc = "get" /\ tasks'[i].hit =>
                  /\ k \in DOMAIN cache
                  /\ tasks'[i].result = db_execute(c, db)

\* C23: cache unavailability does not stick.  Once redis is reachable again
\* after cache operations that returned without a connection, the next
\* cache operations connect and take effect, and a call whose parameters
\* repeat those of a call that has returned since, with no flush and no
\* cutover in between, is served from the cache without a store query.
C23_UnavailabilityNotSticky ==
    [][ fout.recovered /\ redisUp =>
          /\ RecoveredOpsTakeEffect
          /\ \A i \in Tasks :
                tasks[i].pc = "get" /\ tasks'[i].expectHit =>
                    tasks'[i].hit /\ tasks'[i].queries = 0 ]_vars

=============================================================================
